---- MODULE Spec2Model ----
(***************************************************************************)
(* Model of NIVA's contour-based gating (src/gating/contour_based_gating.py):*)
(* the ContourBasedGating object, the fields of main_window it reads and   *)
(* writes, and its handlers (__call__, on_click, on_motion, on_release,    *)
(* draw_existing_lines, remove_lines, update_color, reset_highlights).     *)
(*                                                                         *)
(* Conventions.  Python's None is the string "None" for phases and colours *)
(* and 0 for a coordinate or a line.  Plot coordinates (event.xdata, a     *)
(* line's xdata) are integers counted in 1/100 of a frame, so frame f sits *)
(* at 100*f.  Python lists are sequences (1-based here, 0-based there);    *)
(* signal positions and frame indices keep their Python values.            *)
(***************************************************************************)
EXTENDS Integers, Sequences, FiniteSets, TLC

VARIABLES
    config,            \* main_window.config.gating, copied by __init__
    acq,               \* the loaded acquisition: images, contour data, composite curves
    report_data,       \* self.report_data: the rows of the report table
    frames,            \* self.frames = images[lo:hi], kept as [lo, hi]
    x,                 \* self.x: the 1-based frame numbers of the rows
    fig,               \* TRUE once plot_data made self.fig/self.ax and connected the handlers
    vertical_lines,    \* self.vertical_lines: the Line2D objects [x, color, linestyle]
    selected_line,     \* self.selected_line: 0 for None, k for vertical_lines[k],
                       \*   -1 for a line that self.vertical_lines no longer holds
    current_phase,     \* self.current_phase
    tmp_phase,         \* self.tmp_phase
    gated_frames_dia,  \* main_window.gated_frames_dia
    gated_frames_sys,  \* main_window.gated_frames_sys
    phases,            \* main_window.data['phases']
    slider,            \* main_window.display_slider value
    missing_frames,    \* define_intramural_part: missing_frames of the last failed setup
    str_missing,       \* define_intramural_part: str_missing
    auto,              \* locals of the last automatic_gating run
    plot,              \* locals of the last signal computation of plot_data
    calls,             \* calls the last handler made on the main window's widgets
    last,              \* the path the last handler took
    err                \* the exception the last handler raised, "None" if none

vars == <<config, acq, report_data, frames, x, fig, vertical_lines,
          selected_line, current_phase, tmp_phase, gated_frames_dia,
          gated_frames_sys, phases, slider,
          missing_frames, str_missing, auto, plot, calls, last, err>>

(***************************************************************************)
(* Bounds of the model.                                                    *)
(***************************************************************************)
NumImages == 5        \* images in the acquisition
MaxLines == 2         \* most markers the annotation handlers leave on the plot
SessionImages == 4    \* images in the acquisition of an annotation session
PressFrames == 1      \* plotted frames the mouse is pressed or moved at
MaxMissing == 5       \* longest list handed to connect_consecutive_frames

(***************************************************************************)
(* Python built-ins used by the code.                                      *)
(***************************************************************************)
Range(s) == {s[i] : i \in 1..Len(s)}

Min(S) == CHOOSE m \in S : \A o \in S : m <= o

Abs(n) == IF n < 0 THEN -n ELSE n

\* sorted(S) of a set of integers
RECURSIVE Sorted(_)
Sorted(S) == IF S = {} THEN <<>> ELSE <<Min(S)>> \o Sorted(S \ {Min(S)})

\* sep.join(strs)
RECURSIVE Join(_, _)
Join(strs, sep) ==
    IF Len(strs) = 0 THEN ""
    ELSE IF Len(strs) = 1 THEN strs[1]
    ELSE strs[1] \o sep \o Join(Tail(strs), sep)

\* round(n / d) for d > 0: Python 3 and numpy round half to even
RoundDiv(n, d) ==
    LET q == n \div d
        r == n % d
    IN  IF 2 * r < d THEN q
        ELSE IF 2 * r > d THEN q + 1
        ELSE IF q % 2 = 0 THEN q ELSE q + 1

(***************************************************************************)
(* connect_consecutive_frames (lines 99-116).                              *)
(***************************************************************************)
\* the inner while loop: the last index of the run that starts at i
RECURSIVE RunEnd(_, _)
RunEnd(nums, j) ==
    IF j < Len(nums) /\ nums[j + 1] - nums[j] = 1 THEN RunEnd(nums, j + 1) ELSE j

\* the outer while loop: the list `connected` of sublists
RECURSIVE Runs(_, _)
Runs(nums, i) ==
    IF i > Len(nums) THEN <<>>
    ELSE LET j == RunEnd(nums, i)
         IN  <<SubSeq(nums, i, j)>> \o Runs(nums, j + 1)

\* the rendering of one sublist (the list comprehension of lines 112-115)
RenderSublist(sublist) ==
    IF Len(sublist) > 2
    THEN ToString(sublist[1]) \o "-" \o ToString(sublist[Len(sublist)])
    ELSE Join([k \in 1..Len(sublist) |-> ToString(sublist[k])], ", ")

connect_consecutive_frames(missing) ==
    LET nums == Sorted(Range(missing))
        connected == Runs(nums, 1)
    IN  Join([k \in 1..Len(connected) |-> RenderSublist(connected[k])], ", ")

(***************************************************************************)
(* Signals are sequences of integers; Python position i is element i + 1.  *)
(***************************************************************************)
At(signal, i) == signal[i + 1]

Neg(signal) == [k \in DOMAIN signal |-> -signal[k]]

\* a[k] of a = np.sort(signal), k 0-based
KthSmallest(signal, k) ==
    CHOOSE v \in Range(signal) :
        /\ Cardinality({i \in DOMAIN signal : signal[i] < v}) <= k
        /\ k < Cardinality({i \in DOMAIN signal : signal[i] <= v})

\* 100 * np.percentile(signal, p), linear interpolation between the two
\* closest ranks: a[lo] + (p/100 * (n-1) - lo) * (a[lo+1] - a[lo])
Percentile100(signal, p) ==
    LET n == Len(signal)
        lo == (p * (n - 1)) \div 100
    IN  IF lo >= n - 1 THEN 100 * KthSmallest(signal, n - 1)
        ELSE 100 * KthSmallest(signal, lo)
             + (p * (n - 1) - 100 * lo)
               * (KthSmallest(signal, lo + 1) - KthSmallest(signal, lo))

(***************************************************************************)
(* scipy.signal.find_peaks(signal, distance, height), as called on lines   *)
(* 259-260: the local maxima (a flat top counts once, at its middle, and   *)
(* never at either end of the signal), then the height condition, then the *)
(* distance condition, which keeps the higher peak of two that are closer  *)
(* than `distance` (of two equally high ones, the later).                  *)
(***************************************************************************)
LocalMaxima(signal) ==
    LET n == Len(signal)
    IN  { (l + r) \div 2 : <<l, r>> \in
            { lr \in (1..(n - 2)) \X (1..(n - 2)) :
                /\ lr[1] <= lr[2]
                /\ \A i \in lr[1]..lr[2] : At(signal, i) = At(signal, lr[1])
                /\ At(signal, lr[1] - 1) < At(signal, lr[1])
                /\ At(signal, lr[2] + 1) < At(signal, lr[2]) } }

\* peaks by falling priority, the order _select_by_peak_distance visits them in
RECURSIVE ByPriority(_, _)
ByPriority(peaks, signal) ==
    IF peaks = {} THEN <<>>
    ELSE LET j == CHOOSE j \in peaks : \A k \in peaks :
                     \/ At(signal, j) > At(signal, k)
                     \/ (At(signal, j) = At(signal, k) /\ j >= k)
         IN  <<j>> \o ByPriority(peaks \ {j}, signal)

RECURSIVE SelectByDistance(_, _, _)
SelectByDistance(order, keep, distance) ==
    IF order = <<>> THEN keep
    ELSE LET j == Head(order)
         IN  IF j \notin keep THEN SelectByDistance(Tail(order), keep, distance)
             ELSE SelectByDistance(Tail(order),
                      {k \in keep : k = j \/ Abs(k - j) >= distance}, distance)

find_peaks(signal, distance, height100) ==
    LET high == {p \in LocalMaxima(signal) : 100 * At(signal, p) >= height100}
    IN  Sorted(SelectByDistance(ByPriority(high, signal), high, distance))

(***************************************************************************)
(* identify_extrema (lines 251-266).  Signals here are finite, so          *)
(* nan_to_num changes nothing.                                             *)
(***************************************************************************)
\* identify_extrema without the np.sort of line 264
identify_extrema_unsorted(signal, cfg) ==
    LET min_height == Percentile100(signal, cfg.min_height_percentile)
        maxima_indices == find_peaks(signal, cfg.distance, min_height)
        minima_indices == find_peaks(Neg(signal), cfg.distance, min_height)
    IN  [extrema |-> maxima_indices \o minima_indices,
         maxima |-> maxima_indices]

identify_extrema(signal, cfg) ==
    LET min_height == Percentile100(signal, cfg.min_height_percentile)
        maxima_indices == find_peaks(signal, cfg.distance, min_height)
        minima_indices == find_peaks(Neg(signal), cfg.distance, min_height)
    IN  [extrema |-> Sorted(Range(maxima_indices) \cup Range(minima_indices)),
         maxima |-> maxima_indices]

(***************************************************************************)
(* automatic_gating (lines 357-412).                                       *)
(***************************************************************************)
\* a list.remove(v) that removes nothing
RemoveNothing(list, v) == list

\* list.remove(v): drops the first element equal to v
RECURSIVE RemoveFirst(_, _)
RemoveFirst(list, v) ==
    IF list = <<>> THEN <<>>
    ELSE IF Head(list) = v THEN Tail(list)
    ELSE <<Head(list)>> \o RemoveFirst(Tail(list), v)

\* close_extrema of line 383
CloseExtrema(maxima, extrema_indices, threshold) ==
    LET Close(extrema) == Abs(maxima - extrema) <= threshold
    IN  SelectSeq(extrema_indices, Close)

\* the loop of lines 382-389: gated_indices, starting from `gated`
RECURSIVE MatchPeaks(_, _, _, _)
MatchPeaks(maxima_indices, extrema_indices, gated, threshold) ==
    IF maxima_indices = <<>> THEN gated
    ELSE LET maxima == Head(maxima_indices)
             close_extrema == CloseExtrema(maxima, extrema_indices, threshold)
         IN  IF close_extrema # <<>>
             THEN LET closest_extrema == close_extrema[1]
                  IN  MatchPeaks(Tail(maxima_indices),
                                 RemoveFirst(extrema_indices, closest_extrema),
                                 Append(gated, RoundDiv(maxima + closest_extrema, 2)),
                                 threshold)
             ELSE MatchPeaks(Tail(maxima_indices), extrema_indices, gated, threshold)

\* list[start::2], start 0-based
EverySecond(list, start) ==
    [k \in 1..((Len(list) - start + 1) \div 2) |-> list[start + 2 * k - 1]]

\* the rows of the table whose 'frame' column equals frame (lines 396, 399)
RowsOf(rows, frame) == SelectSeq(rows, LAMBDA row : row.frame = frame)

RECURSIVE SumLumen(_, _)
SumLumen(rows, half) ==
    IF half = <<>> THEN 0
    ELSE RowsOf(rows, Head(half))[1].lumen_area + SumLumen(rows, Tail(half))

\* lines 391-407 for the gated_indices the loop has produced: the locals of
\* automatic_gating; read_frames are the values compared with the table's
\* 'frame' column on lines 396 and 399, `raised` when .values[0] finds no row
SplitByLumen(maxima_indices, extrema_indices, gated_indices, rows) ==
    LET first_half == EverySecond(gated_indices, 0)
        second_half == EverySecond(gated_indices, 1)
        raised == \E k \in 1..Len(gated_indices) :
                      RowsOf(rows, gated_indices[k]) = <<>>
        first_is_dia == SumLumen(rows, first_half) > SumLumen(rows, second_half)
    IN  [ran |-> TRUE,
         maxima_indices |-> maxima_indices,
         extrema_indices |-> extrema_indices,
         gated_indices |-> gated_indices,
         first_half |-> first_half,
         second_half |-> second_half,
         read_frames |-> gated_indices,
         raised |-> raised,
         dia |-> IF raised THEN <<>>
                 ELSE IF first_is_dia THEN first_half ELSE second_half,
         sys |-> IF raised THEN <<>>
                 ELSE IF first_is_dia THEN second_half ELSE first_half]

\* lines 357-389; each intermediate list is bound once, as a local of the code is
AutomaticGating(maxima_signal, extrema_signal, cfg, rows) ==
    CHOOSE result \in
        { SplitByLumen(maxima_indices, extrema_indices,
                       MatchPeaks(maxima_indices, extrema_indices, <<>>,
                                  cfg.auto_gating_threshold),
                       rows) :
            maxima_indices \in {IF cfg.both_extrema
                                THEN identify_extrema(maxima_signal, cfg).extrema
                                ELSE identify_extrema(maxima_signal, cfg).maxima},
            extrema_indices \in {identify_extrema(extrema_signal, cfg).extrema} } : TRUE

NoAuto ==
    [ran |-> FALSE, maxima_indices |-> <<>>, extrema_indices |-> <<>>,
     gated_indices |-> <<>>, first_half |-> <<>>, second_half |-> <<>>,
     read_frames |-> <<>>, raised |-> FALSE, dia |-> <<>>, sys |-> <<>>]

\* no signal computation made yet
NoPlot == [done |-> FALSE]

\* the loops of lines 409-412
RECURSIVE Stamp(_, _, _)
Stamp(ph, list, label) ==
    IF list = <<>> THEN ph
    ELSE Stamp([ph EXCEPT ![Head(list)] = label], Tail(list), label)

(***************************************************************************)
(* Line2D objects.  self.selected_line refers to one of them: the model    *)
(* keeps its place in self.vertical_lines.  A line the list no longer      *)
(* holds has left the axes too (remove_lines, lines 498-502): nothing      *)
(* reads its attributes again, and the model does not keep them.           *)
(***************************************************************************)
default_line_color == "grey"

default_linestyle == "(0, (1, 3))"

diastole_color_plt == "diastole_color"

systole_color_plt == "systole_color"

\* plt.axvline(x=xd, color=color, linestyle=self.default_linestyle)
axvline(xd, color) == [x |-> xd, color |-> color, linestyle |-> default_linestyle]

\* self.selected_line.set_<field>(v): self.vertical_lines afterwards
SetSelected(field, v) ==
    IF selected_line > 0
    THEN [vertical_lines EXCEPT ![selected_line][field] = v]
    ELSE vertical_lines

RemoveAt(list, k) == SubSeq(list, 1, k - 1) \o SubSeq(list, k + 1, Len(list))

\* draw_existing_lines (lines 493-496): self.vertical_lines afterwards
DrawExistingLines(lines, list, color, xs) ==
    LET InRange(frame) == \E k \in 1..Len(xs) : xs[k] - 1 = frame
        kept == SelectSeq(list, InRange)
    IN  lines \o [k \in 1..Len(kept) |-> axvline(100 * (kept[k] + 1), color)]

(***************************************************************************)
(* report(main_window, lower_limit, upper_limit) of report/report.py: one  *)
(* row per frame of the range that has contours, None when there are none. *)
(***************************************************************************)
NoneTable == [none |-> TRUE, rows |-> <<>>]

report(a, lower_limit, upper_limit) ==
    LET with == Sorted({f \in (lower_limit + 1)..upper_limit : f \in a.contours})
    IN  IF a.contours = {} THEN NoneTable
        ELSE [none |-> FALSE,
              rows |-> [k \in 1..Len(with) |->
                          [frame |-> with[k], lumen_area |-> a.lumen[with[k]]]]]

\* what FrameRangeDialog can return for an acquisition of n images
Trims == {0, 1}

FrameRanges(n) ==
    {r \in (0..n) \X (0..n) : r[1] \in Trims /\ (n - r[2]) \in Trims /\ r[1] < r[2]}

(***************************************************************************)
(* __call__ (lines 52-66) with define_intramural_part (68-97), plot_data   *)
(* (271-355) and automatic_gating.  The composite curves plot_data builds  *)
(* are acq.maxima and acq.extrema restricted to the chosen frames.         *)
(***************************************************************************)
\* the markers a call may leave on the plot: one per peak of the longest signal
MaxDrawn == NumImages - 2

\* automatic gating running while either list is empty
RunAutoEither == gated_frames_dia = <<>> \/ gated_frames_sys = <<>>

\* line 340: automatic gating runs only while nothing is gated
RunAuto == gated_frames_dia = <<>> /\ gated_frames_sys = <<>>

Call(accepted, lower_limit, upper_limit) ==
    LET new_report == report(acq, lower_limit, upper_limit)
        rows == new_report.rows
        complete == ~new_report.none /\ Len(rows) = upper_limit - lower_limit
        missing == SelectSeq([k \in 1..(upper_limit - lower_limit) |-> lower_limit + k],
                             LAMBDA frame : \A k \in 1..Len(rows) : rows[k].frame # frame)
        new_x == [k \in 1..Len(rows) |-> rows[k].frame]
    IN  /\ calls' = <<>>
        /\ UNCHANGED <<config, acq, plot, selected_line, current_phase,
                       tmp_phase, slider>>
        /\ IF ~accepted
           THEN /\ last' = "cancelled"
                /\ err' = "None"
                /\ UNCHANGED <<report_data, frames, x, fig, vertical_lines,
                               gated_frames_dia, gated_frames_sys, phases,
                               missing_frames, str_missing, auto>>
           ELSE /\ report_data' = new_report
                /\ IF ~complete
                   THEN /\ last' = IF new_report.none THEN "no report"
                                            ELSE "missing frames"
                        /\ err' = "None"
                        /\ missing_frames' = IF new_report.none THEN missing_frames
                                             ELSE missing
                        /\ str_missing' = IF new_report.none THEN str_missing
                                          ELSE connect_consecutive_frames(missing)
                        /\ UNCHANGED <<frames, x, fig, vertical_lines,
                                       gated_frames_dia, gated_frames_sys, phases, auto>>
                   ELSE /\ frames' = [lo |-> lower_limit, hi |-> upper_limit]
                        /\ x' = new_x
                        /\ fig' = TRUE
                        /\ UNCHANGED <<missing_frames, str_missing>>
                        /\ IF RunAuto
                           THEN \E a \in {AutomaticGating(
                                            SubSeq(acq.maxima, lower_limit + 1, upper_limit),
                                            SubSeq(acq.extrema, lower_limit + 1, upper_limit),
                                            config, rows)} :
                                  /\ auto' = a
                                  /\ IF a.raised
                                     THEN /\ last' = "gating raised"
                                          /\ err' = "IndexError"
                                          /\ UNCHANGED <<vertical_lines, gated_frames_dia,
                                                         gated_frames_sys, phases>>
                                     ELSE /\ last' = "gated"
                                          /\ err' = "None"
                                          /\ gated_frames_dia' = a.dia
                                          /\ gated_frames_sys' = a.sys
                                          /\ phases' = Stamp(Stamp(phases, a.dia, "D"),
                                                             a.sys, "S")
                                          /\ vertical_lines' = DrawExistingLines(
                                                 DrawExistingLines(vertical_lines, a.dia,
                                                     diastole_color_plt, new_x),
                                                 a.sys, systole_color_plt, new_x)
                                          /\ Len(vertical_lines') <= MaxDrawn
                           ELSE /\ last' = "plotted"
                                /\ err' = "None"
                                /\ vertical_lines' = DrawExistingLines(
                                       DrawExistingLines(vertical_lines, gated_frames_dia,
                                           diastole_color_plt, new_x),
                                       gated_frames_sys, systole_color_plt, new_x)
                                /\ Len(vertical_lines') <= MaxDrawn
                                /\ UNCHANGED <<gated_frames_dia, gated_frames_sys,
                                               phases, auto>>

(***************************************************************************)
(* toggle_diastolic_frame / toggle_systolic_frame of gui/right_half: the   *)
(* toggle entry points through which the gated-frame lists are edited.     *)
(* They act on the frame the slider shows: state_true puts it in the       *)
(* phase's list (and takes it out of the other: a frame has one phase),    *)
(* otherwise it is taken out of the phase's list.                          *)
(***************************************************************************)
\* bisect.insort of frame into an ordered list
InsertOrdered(list, frame) ==
    SelectSeq(list, LAMBDA f : f <= frame) \o <<frame>>
        \o SelectSeq(list, LAMBDA f : f > frame)

Without(list, frame) == SelectSeq(list, LAMBDA f : f # frame)

\* st = [dia, sys, phases]
ToggleFrame(st, phase, frame, state_true) ==
    LET mine == IF phase = "D" THEN st.dia ELSE st.sys
        other == IF phase = "D" THEN st.sys ELSE st.dia
        mine2 == IF state_true
                 THEN IF frame \in Range(mine) THEN mine ELSE InsertOrdered(mine, frame)
                 ELSE Without(mine, frame)
        other2 == IF state_true THEN Without(other, frame) ELSE other
        label == IF state_true THEN phase
                 ELSE IF st.phases[frame] = phase THEN "-" ELSE st.phases[frame]
    IN  [dia |-> IF phase = "D" THEN mine2 ELSE other2,
         sys |-> IF phase = "D" THEN other2 ELSE mine2,
         phases |-> [st.phases EXCEPT ![frame] = label]]

\* main_window.diastolic_frame_box.setChecked(True), or the systolic one
SetChecked(phase) ==
    [fn |-> IF phase = "D" THEN "diastolic_frame_box.setChecked"
            ELSE "systolic_frame_box.setChecked",
     state_true |-> TRUE, drag |-> FALSE]

ToggleCall(phase, state_true, drag) ==
    [fn |-> IF phase = "D" THEN "toggle_diastolic_frame" ELSE "toggle_systolic_frame",
     state_true |-> state_true, drag |-> drag]

(***************************************************************************)
(* Mouse events: button, inaxes, xdata in 1/100 frame (0 for None, which   *)
(* is what matplotlib gives outside the axes), and the shape of the        *)
(* canvas cursor when the event arrives (0 the arrow, else zoom or pan).   *)
(***************************************************************************)
Offsets == {0, 2}

\* the events the canvas can deliver: inside the axes xdata is at or just
\* right of a plotted frame number, from the second plotted frame (the first
\* a peak can fall on) for PressFrames frames
PressXs ==
    {100 * f + o : f \in (frames.lo + 2)..Min({frames.hi, frames.lo + 1 + PressFrames}),
                   o \in Offsets}

AllEvents ==
    {[button |-> b, inaxes |-> TRUE, xdata |-> xd, cursor_shape |-> c] :
        b \in {"LEFT", "RIGHT"}, c \in {0, 1}, xd \in PressXs}
    \cup {[button |-> b, inaxes |-> FALSE, xdata |-> 0, cursor_shape |-> c] :
              b \in {"LEFT", "RIGHT"}, c \in {0, 1}}

\* no handler looks at xdata of an event of another button or in zoom/pan
\* mode: one position stands for all of them
Events ==
    {e \in AllEvents :
        (e.button # "LEFT" \/ e.cursor_shape # 0) /\ e.inaxes
            => e.xdata = 100 * (frames.lo + 2)}

\* self.fig.canvas.cursor().shape() != 0 (lines 415, 458, 471), never
ZoomOrPanNever(event) == FALSE

\* self.fig.canvas.cursor().shape() != 0 (lines 415, 458, 471)
ZoomOrPan(event) == event.cursor_shape # 0

Lists == [dia |-> gated_frames_dia, sys |-> gated_frames_sys, phases |-> phases]

(***************************************************************************)
(* on_click (lines 414-455).                                               *)
(***************************************************************************)
\* a sensitivity in whole frames: len(self.frames) // 100
SensitivityWholeFrames == 100 * ((frames.hi - frames.lo) \div 100)

\* the sensitivity of line 428, in 1/100 frame: len(self.frames) / 100 frames
Sensitivity == frames.hi - frames.lo

on_click(event) ==
    LET deselected == IF selected_line > 0
                      THEN [vertical_lines EXCEPT ![selected_line].linestyle =
                               default_linestyle]
                      ELSE vertical_lines
        distances == [k \in 1..Len(deselected) |-> Abs(deselected[k].x - event.xdata)]
        near == /\ deselected # <<>>
                /\ Min(Range(distances)) < Sensitivity
        argmin == Min({k \in 1..Len(deselected) : distances[k] = Min(Range(distances))})
        new_line == ~near
        set_dia == new_line /\ current_phase = "D"
        set_sys == new_line /\ current_phase = "S"
        color == IF current_phase = "D" THEN diastole_color_plt
                 ELSE IF current_phase = "S" THEN systole_color_plt
                 ELSE default_line_color
        lines == IF new_line THEN Append(deselected, axvline(event.xdata, color))
                 ELSE deselected
        selected == IF new_line THEN Len(lines) ELSE argmin
        set_slider_to == RoundDiv(lines[selected].x - 100, 100)
        begin_dia == set_slider_to \in Range(gated_frames_dia) \/ set_dia
        begin_sys == ~begin_dia /\ (set_slider_to \in Range(gated_frames_sys) \/ set_sys)
        toggled == IF begin_dia THEN ToggleFrame(Lists, "D", set_slider_to, FALSE)
                   ELSE IF begin_sys THEN ToggleFrame(Lists, "S", set_slider_to, FALSE)
                   ELSE Lists
    IN  /\ fig
        /\ err' = "None"
        /\ UNCHANGED <<config, acq, plot, report_data, frames, x, fig, current_phase,
                       missing_frames, str_missing, auto>>
        /\ IF ZoomOrPan(event)
           THEN /\ last' = "zoom"
                /\ calls' = <<>>
                /\ UNCHANGED <<vertical_lines, selected_line, tmp_phase,
                               gated_frames_dia, gated_frames_sys, phases, slider>>
           ELSE IF ~(event.button = "LEFT" /\ event.inaxes)
           THEN /\ last' = "ignored"
                /\ calls' = <<>>
                /\ UNCHANGED <<vertical_lines, selected_line, tmp_phase,
                               gated_frames_dia, gated_frames_sys, phases, slider>>
           ELSE /\ Len(lines) <= MaxLines
                /\ last' = IF new_line THEN "new" ELSE "select"
                /\ selected_line' = selected
                /\ vertical_lines' = [lines EXCEPT ![selected].linestyle = "dashed"]
                /\ slider' = set_slider_to
                /\ tmp_phase' = IF begin_dia THEN "D"
                                ELSE IF begin_sys THEN "S" ELSE tmp_phase
                /\ calls' = IF begin_dia THEN <<ToggleCall("D", FALSE, TRUE)>>
                            ELSE IF begin_sys THEN <<ToggleCall("S", FALSE, TRUE)>>
                            ELSE <<>>
                /\ gated_frames_dia' = toggled.dia
                /\ gated_frames_sys' = toggled.sys
                /\ phases' = toggled.phases

(***************************************************************************)
(* on_release (lines 457-468).                                             *)
(***************************************************************************)
on_release(event) ==
    LET commit == event.button = "LEFT" /\ event.inaxes /\ tmp_phase # "None"
        toggled == IF commit THEN ToggleFrame(Lists, tmp_phase, slider, TRUE) ELSE Lists
    IN  /\ fig
        /\ err' = "None"
        /\ UNCHANGED <<config, acq, plot, report_data, frames, x, fig, vertical_lines,
                       selected_line, current_phase, slider,
                       missing_frames, str_missing, auto>>
        /\ IF ZoomOrPan(event)
           THEN /\ last' = "zoom"
                /\ calls' = <<>>
                /\ UNCHANGED <<tmp_phase, gated_frames_dia, gated_frames_sys, phases>>
           ELSE /\ last' = IF commit THEN "commit"
                           ELSE IF tmp_phase # "None" THEN "dropped"
                           ELSE "ignored"
                /\ calls' = IF commit
                            THEN <<SetChecked(tmp_phase), ToggleCall(tmp_phase, TRUE, TRUE)>>
                            ELSE <<>>
                /\ gated_frames_dia' = toggled.dia
                /\ gated_frames_sys' = toggled.sys
                /\ phases' = toggled.phases
                /\ tmp_phase' = "None"

(***************************************************************************)
(* on_motion (lines 470-484).  event.xdata is None exactly outside the     *)
(* axes; list.remove raises ValueError when the line is not in the list.   *)
(***************************************************************************)
on_motion(event) ==
    /\ fig
    /\ calls' = <<>>
    /\ UNCHANGED <<config, acq, plot, report_data, frames, x, fig, current_phase,
                   gated_frames_dia, gated_frames_sys, phases,
                   missing_frames, str_missing, auto>>
    /\ IF ZoomOrPan(event)
       THEN /\ last' = "zoom"
            /\ err' = "None"
            /\ UNCHANGED <<vertical_lines, selected_line, tmp_phase, slider>>
       ELSE IF ~(event.button = "LEFT" /\ selected_line # 0)
       THEN /\ last' = "ignored"
            /\ err' = "None"
            /\ UNCHANGED <<vertical_lines, selected_line, tmp_phase, slider>>
       ELSE IF event.inaxes
       THEN /\ last' = "moved"
            /\ err' = "None"
            /\ vertical_lines' = SetSelected("x", event.xdata)
            /\ slider' = RoundDiv(event.xdata - 100, 100)
            /\ UNCHANGED <<selected_line, tmp_phase>>
       ELSE IF selected_line > 0
       THEN /\ last' = "deleted"
            /\ err' = "None"
            /\ vertical_lines' = RemoveAt(vertical_lines, selected_line)
            /\ selected_line' = 0
            /\ tmp_phase' = "None"
            /\ UNCHANGED slider
       ELSE /\ last' = "motion raised"
            /\ err' = "ValueError"
            /\ UNCHANGED <<vertical_lines, selected_line, tmp_phase, slider>>

(***************************************************************************)
(* draw_existing_lines, remove_lines, update_color and reset_highlights    *)
(* (lines 493-514), as the main window calls them.                         *)
(***************************************************************************)
draw_existing_lines(phase) ==
    LET drawn == DrawExistingLines(vertical_lines,
                     IF phase = "D" THEN gated_frames_dia ELSE gated_frames_sys,
                     IF phase = "D" THEN diastole_color_plt ELSE systole_color_plt,
                     x)
    IN  /\ fig
        /\ Len(drawn) <= MaxLines
        /\ vertical_lines' = drawn
        /\ last' = "other"
        /\ calls' = <<>>
        /\ err' = "None"
        /\ UNCHANGED <<config, acq, plot, report_data, frames, x, fig, selected_line,
                       current_phase, tmp_phase, gated_frames_dia,
                       gated_frames_sys, phases, slider, missing_frames,
                       str_missing, auto>>

remove_lines ==
    /\ vertical_lines' = <<>>
    /\ selected_line' = IF selected_line # 0 THEN -1 ELSE 0
    /\ last' = "other"
    /\ calls' = <<>>
    /\ err' = "None"
    /\ UNCHANGED <<config, acq, plot, report_data, frames, x, fig,
                   current_phase, tmp_phase, gated_frames_dia, gated_frames_sys,
                   phases, slider, missing_frames, str_missing, auto>>

update_color(color) ==
    LET c == IF color = "None" THEN default_line_color ELSE color
    IN  /\ vertical_lines' = SetSelected("color", c)
        /\ last' = "other"
        /\ calls' = <<>>
        /\ err' = "None"
        /\ UNCHANGED <<config, acq, plot, report_data, frames, x, fig,
                       selected_line, current_phase, tmp_phase, gated_frames_dia,
                       gated_frames_sys, phases, slider,
                       missing_frames, str_missing, auto>>

reset_highlights ==
    /\ vertical_lines' = SetSelected("linestyle", default_linestyle)
    /\ selected_line' = 0
    /\ last' = "other"
    /\ calls' = <<>>
    /\ err' = "None"
    /\ UNCHANGED <<config, acq, plot, report_data, frames, x, fig,
                   current_phase, tmp_phase, gated_frames_dia, gated_frames_sys,
                   phases, slider, missing_frames, str_missing, auto>>

(***************************************************************************)
(* The main window arms a phase for new markers: self.current_phase, which *)
(* on_click reads on lines 433-438.                                        *)
(***************************************************************************)
arm_phase(phase) ==
    /\ phase # current_phase
    /\ current_phase' = phase
    /\ last' = "other"
    /\ calls' = <<>>
    /\ err' = "None"
    /\ UNCHANGED <<config, acq, plot, report_data, frames, x, fig, vertical_lines,
                   selected_line, tmp_phase, gated_frames_dia,
                   gated_frames_sys, phases, slider, missing_frames,
                   str_missing, auto>>

(***************************************************************************)
(* __init__ (lines 25-50) for a configuration cfg and an acquisition a.    *)
(***************************************************************************)
InitObject(cfg, a) ==
    /\ config = cfg
    /\ acq = a
    /\ report_data = NoneTable
    /\ frames = [lo |-> 0, hi |-> 0]
    /\ x = <<>>
    /\ fig = FALSE
    /\ vertical_lines = <<>>
    /\ selected_line = 0
    /\ current_phase = "None"
    /\ tmp_phase = "None"
    /\ gated_frames_dia = <<>>
    /\ gated_frames_sys = <<>>
    /\ phases = [i \in 0..(a.n - 1) |-> "-"]
    /\ slider = 0
    /\ missing_frames = <<>>
    /\ str_missing = ""
    /\ auto = NoAuto
    /\ plot = NoPlot
    /\ calls = <<>>
    /\ last = "__init__"
    /\ err = "None"

\* the configurations tried
Thresholds == {1, 2}

Distances == {1, 3}

Percentiles == {0, 50}

Configs ==
    [auto_gating_threshold : Thresholds, distance : Distances,
     min_height_percentile : Percentiles, both_extrema : BOOLEAN]

\* composite curves: every 0/1 signal of n values
Signals(n) == [1..n -> {0, 1}]

\* lumen areas per frame: growing or shrinking along the pullback, or wide
\* with one narrow frame
LumenProfiles(n) == {[f \in 1..n |-> f], [f \in 1..n |-> n + 1 - f],
                     [f \in 1..n |-> IF f = 2 THEN 1 ELSE n]}

(***************************************************************************)
(* SpecAuto: gating invoked on every acquisition of NumImages fully        *)
(* contoured images, under every configuration.                            *)
(***************************************************************************)
AutoConfigs == {c \in Configs : c.distance = 1 /\ c.min_height_percentile = 50}

InitAuto ==
    \E cfg \in AutoConfigs, mx \in Signals(NumImages), ex \in Signals(NumImages),
       lum \in LumenProfiles(NumImages) :
        InitObject(cfg, [n |-> NumImages, contours |-> 1..NumImages,
                         lumen |-> lum, maxima |-> mx, extrema |-> ex])

NextAuto == \E r \in {r \in FrameRanges(acq.n) : r[2] = acq.n} : Call(TRUE, r[1], r[2])

SpecAuto == InitAuto /\ [][NextAuto]_vars

(***************************************************************************)
(* SpecFmt: connect_consecutive_frames applied to every list of at most    *)
(* MaxMissing frame numbers.                                               *)
(***************************************************************************)
FrameNumbers == 12..20

InitFmt ==
    /\ \E n \in 0..MaxMissing : missing_frames \in [1..n -> FrameNumbers]
    /\ str_missing = ""
    /\ config = [auto_gating_threshold |-> 1, distance |-> 1,
                 min_height_percentile |-> 50, both_extrema |-> FALSE]
    /\ acq = [n |-> 0, contours |-> {}, lumen |-> <<>>, maxima |-> <<>>, extrema |-> <<>>]
    /\ report_data = NoneTable
    /\ frames = [lo |-> 0, hi |-> 0]
    /\ x = <<>>
    /\ fig = FALSE
    /\ vertical_lines = <<>>
    /\ selected_line = 0
    /\ current_phase = "None"
    /\ tmp_phase = "None"
    /\ gated_frames_dia = <<>>
    /\ gated_frames_sys = <<>>
    /\ phases = <<>>
    /\ slider = 0
    /\ auto = NoAuto
    /\ plot = NoPlot
    /\ calls = <<>>
    /\ last = "__init__"
    /\ err = "None"

Connect ==
    /\ last = "__init__"
    /\ str_missing' = connect_consecutive_frames(missing_frames)
    /\ last' = "connect_consecutive_frames"
    /\ UNCHANGED <<config, acq, plot, report_data, frames, x, fig, vertical_lines,
                   selected_line, current_phase, tmp_phase, gated_frames_dia,
                   gated_frames_sys, phases, slider,
                   missing_frames, auto, calls, err>>

SpecFmt == InitFmt /\ [][Connect]_vars

(***************************************************************************)
(* The rescaling of plot_data (lines 285-295).  Signal values are exact    *)
(* fractions: a signal is [num, den], the sequence of numerators over one  *)
(* positive denominator, and a scalar is [num, den] with den > 0.          *)
(***************************************************************************)
RECURSIVE Sum(_)
Sum(s) == IF s = <<>> THEN 0 ELSE Head(s) + Sum(Tail(s))

\* np.mean of a signal
Mean(signal) == [num |-> Sum(signal.num), den |-> signal.den * Len(signal.num)]

\* a / b of two scalars, b not zero
Quotient(a, b) ==
    IF b.num > 0 THEN [num |-> a.num * b.den, den |-> a.den * b.num]
    ELSE [num |-> -(a.num * b.den), den |-> a.den * (-b.num)]

\* signal *= factor
Scaled(signal, factor) ==
    [num |-> [i \in 1..Len(signal.num) |-> signal.num[i] * factor.num],
     den |-> signal.den * factor.den]

\* lines 292-295
RescaleBy(signal_maxima, signal_extrema, factor_diff) ==
    IF factor_diff.num < factor_diff.den
    THEN [factor_diff |-> factor_diff, done |-> TRUE,
          signal_maxima |-> signal_maxima,
          signal_extrema |-> Scaled(signal_extrema, factor_diff)]
    ELSE [factor_diff |-> factor_diff, done |-> TRUE,
          signal_maxima |-> Scaled(signal_maxima, factor_diff),
          signal_extrema |-> signal_extrema]

\* lines 285-295
Rescale(signal_maxima, signal_extrema) ==
    LET mean_max_values == Mean(signal_maxima)
        mean_extrema_values == Mean(signal_extrema)
        factor_diff == Quotient(mean_max_values, mean_extrema_values)
    IN  RescaleBy(signal_maxima, signal_extrema, factor_diff)

(***************************************************************************)
(* SpecScale: the rescaling applied to every pair of composite signals of  *)
(* ScaleLen values whose extrema signal has a mean other than zero.        *)
(***************************************************************************)
ScaleLen == 3

ScaleValues == {-5, 5, 10}

InitScale ==
    \E mx \in [1..ScaleLen -> ScaleValues],
       ex \in {s \in [1..ScaleLen -> ScaleValues] : Sum(s) # 0} :
        InitObject([auto_gating_threshold |-> 1, distance |-> 1,
                    min_height_percentile |-> 50, both_extrema |-> FALSE],
                   [n |-> ScaleLen, contours |-> 1..ScaleLen,
                    lumen |-> [f \in 1..ScaleLen |-> f],
                    maxima |-> mx, extrema |-> ex])

plot_data_rescale ==
    /\ last = "__init__"
    /\ plot' = Rescale([num |-> acq.maxima, den |-> 1], [num |-> acq.extrema, den |-> 1])
    /\ last' = "rescaled"
    /\ UNCHANGED <<config, acq, report_data, frames, x, fig, vertical_lines,
                   selected_line, current_phase, tmp_phase, gated_frames_dia,
                   gated_frames_sys, phases, slider, missing_frames,
                   str_missing, auto, calls, err>>

SpecScale == InitScale /\ [][plot_data_rescale]_vars

(***************************************************************************)
(* SpecExtrema: identify_extrema applied to every signal of NumImages      *)
(* values around zero, under every configuration.                          *)
(***************************************************************************)
ExtremaValues == {-1, 0, 1}

InitExtrema ==
    \E cfg \in Configs, signal \in [1..NumImages -> ExtremaValues] :
        InitObject(cfg, [n |-> NumImages, contours |-> 1..NumImages,
                         lumen |-> [f \in 1..NumImages |-> f],
                         maxima |-> signal, extrema |-> signal])

identify_extrema_call ==
    /\ last = "__init__"
    /\ \E found \in {identify_extrema(acq.extrema, config)} :
           plot' = [done |-> TRUE, extrema_indices |-> found.extrema,
                    maxima_indices |-> found.maxima]
    /\ last' = "identified"
    /\ UNCHANGED <<config, acq, report_data, frames, x, fig, vertical_lines,
                   selected_line, current_phase, tmp_phase, gated_frames_dia,
                   gated_frames_sys, phases, slider, missing_frames,
                   str_missing, auto, calls, err>>

SpecExtrema == InitExtrema /\ [][identify_extrema_call]_vars

(***************************************************************************)
(* combined_signal (lines 190-249).  The weights are numpy floats: a       *)
(* division by zero raises nothing and gives inf or nan, which the model   *)
(* keeps as the classes "finite", "inf", "-inf" and "nan".                 *)
(***************************************************************************)
\* window_size * smooth_curve(signal) (line 269) for an odd window_size no
\* longer than the signal: the moving sum, zeros beyond both ends.  The
\* common factor window_size moves no peak and no percentile rank.
smooth_curve(signal, window_size) ==
    LET half == (window_size - 1) \div 2
    IN  [i \in 1..Len(signal) |->
            Sum([k \in 1..window_size |->
                    IF i - half + k - 1 \in 1..Len(signal)
                    THEN signal[i - half + k - 1] ELSE 0])]

\* np.diff
Diff(list) == [k \in 1..(Len(list) - 1) |-> list[k + 1] - list[k]]

\* np.std(np.diff(extrema)) (line 219): nan for an empty difference list,
\* else sqrt(num) / m with num = m * sum(d^2) - sum(d)^2
Variability(extrema) ==
    LET d == Diff(extrema)
        m == Len(d)
    IN  IF m = 0 THEN [nan |-> TRUE, num |-> 0, m |-> 0]
        ELSE [nan |-> FALSE, m |-> m,
              num |-> m * Sum([k \in 1..m |-> d[k] * d[k]]) - Sum(d) * Sum(d)]

\* the class of (var / sum_variability) ** -1 (lines 222-223)
Weight(var, variability) ==
    LET sum_nan == \E k \in 1..Len(variability) : variability[k].nan
        sum_zero == \A k \in 1..Len(variability) : variability[k].num = 0
    IN  IF var.nan \/ sum_nan THEN "nan"
        ELSE IF sum_zero THEN "nan"
        ELSE IF var.num = 0 THEN "inf"
        ELSE "finite"

\* the class of weight * value
Times(weight, value) ==
    IF weight = "nan" THEN "nan"
    ELSE IF weight = "finite" THEN "finite"
    ELSE IF value = 0 THEN "nan"
    ELSE IF value > 0 THEN "inf" ELSE "-inf"

\* the class of a sum of floats of the given classes
Plus(terms) ==
    IF "nan" \in terms \/ {"inf", "-inf"} \subseteq terms THEN "nan"
    ELSE IF "inf" \in terms THEN "inf"
    ELSE IF "-inf" \in terms THEN "-inf"
    ELSE "finite"

\* lines 203-228; the second value returned (lines 230-249) is the same sum
\* with the same weights over the normalized signals
combined_signal(signal_list, maxima_only, cfg) ==
    LET smoothed_signals == [k \in 1..Len(signal_list) |->
                                smooth_curve(signal_list[k], cfg.window_size)]
        extrema_indices == [k \in 1..Len(signal_list) |->
                               IF maxima_only
                               THEN identify_extrema(smoothed_signals[k], cfg).maxima
                               ELSE identify_extrema(smoothed_signals[k], cfg).extrema]
        variability == [k \in 1..Len(signal_list) |-> Variability(extrema_indices[k])]
        weights == [k \in 1..Len(signal_list) |-> Weight(variability[k], variability)]
    IN  [done |-> TRUE, extrema_indices |-> extrema_indices,
         variability |-> variability, weights |-> weights,
         combined_signal |->
             [i \in 1..Len(signal_list[1]) |->
                 Plus({"finite"} \cup {Times(weights[k], signal_list[k][i]) :
                                          k \in 1..Len(signal_list)})]]

(***************************************************************************)
(* SpecCombine: combined_signal applied to every pair of member signals    *)
(* of CombineLen values.                                                   *)
(***************************************************************************)
CombineLen == 6

WindowSizes == {1, 3}

InitCombine ==
    \E window_size \in WindowSizes, maxima_only \in BOOLEAN,
       first \in Signals(CombineLen), second \in Signals(CombineLen) :
        InitObject([auto_gating_threshold |-> 1, distance |-> 1,
                    min_height_percentile |-> 50, both_extrema |-> FALSE,
                    window_size |-> window_size],
                   [n |-> CombineLen, contours |-> 1..CombineLen,
                    lumen |-> [f \in 1..CombineLen |-> f],
                    maxima |-> <<>>, extrema |-> <<>>,
                    signal_list |-> <<first, second>>, maxima_only |-> maxima_only])

combined_signal_call ==
    /\ last = "__init__"
    /\ \E combined \in {combined_signal(acq.signal_list, acq.maxima_only, config)} :
           plot' = combined
    /\ last' = "combined"
    /\ UNCHANGED <<config, acq, report_data, frames, x, fig, vertical_lines,
                   selected_line, current_phase, tmp_phase, gated_frames_dia,
                   gated_frames_sys, phases, slider, missing_frames,
                   str_missing, auto, calls, err>>

SpecCombine == InitCombine /\ [][combined_signal_call]_vars


(***************************************************************************)
(* Spec: one session on an acquisition, gating and annotating.             *)
(***************************************************************************)
\* the session's acquisition: SessionImages images, the last one without
\* contours, and curves that peak at every other frame
Init ==
    \E cfg \in {c \in AutoConfigs : c.auto_gating_threshold = 1 /\ ~c.both_extrema} :
        InitObject(cfg, [n |-> SessionImages, contours |-> 1..(SessionImages - 1),
                         lumen |-> [f \in 1..SessionImages |-> f],
                         maxima |-> [k \in 1..SessionImages |-> (k + 1) % 2],
                         extrema |-> [k \in 1..SessionImages |-> (k + 1) % 2]])

Next ==
    \/ \E accepted \in BOOLEAN, r \in {r \in FrameRanges(acq.n) : r[2] - r[1] = acq.n - 1} :
           Call(accepted, r[1], r[2])
    \/ \E event \in Events : on_click(event)
    \/ \E event \in Events : on_motion(event)
    \/ \E event \in Events : on_release(event)
    \/ \E phase \in {"D", "S"} : draw_existing_lines(phase)
    \/ remove_lines
    \/ \E color \in {"None", diastole_color_plt, systole_color_plt} : update_color(color)
    \/ reset_highlights
    \/ \E phase \in {"None", "D", "S"} : arm_phase(phase)

Spec == Init /\ [][Next]_vars

(***************************************************************************)
(* Properties.                                                             *)
(***************************************************************************)
Count(list, v) == Cardinality({k \in 1..Len(list) : list[k] = v})

NonDecreasing(list) == \A k \in 1..(Len(list) - 1) : list[k] <= list[k + 1]

Increasing(list) == \A k \in 1..(Len(list) - 1) : list[k] < list[k + 1]

\* automatic_gating ran in the handler that led to this state
AutoRan == last \in {"gated", "gating raised"}

\* range notation with every run of two or more numbers written first-last
RangeNotation(missing) ==
    LET connected == Runs(Sorted(Range(missing)), 1)
        Render(sublist) ==
            IF Len(sublist) >= 2
            THEN ToString(sublist[1]) \o "-" \o ToString(sublist[Len(sublist)])
            ELSE ToString(sublist[1])
    IN  Join([k \in 1..Len(connected) |-> Render(connected[k])], ", ")

\* C1: connect_consecutive_frames renders the sorted, de-duplicated numbers
\* with every maximal run of two or more consecutive numbers as "first-last"
\* and every isolated number as itself, joined by ", "; [13,14,16] gives
\* "13-14, 16" and [12,13,14,15,20] gives "12-15, 20".
C1_CompressedRangeNotation ==
    last = "connect_consecutive_frames" =>
        /\ str_missing = RangeNotation(missing_frames)
        /\ missing_frames = <<13, 14, 16>> => str_missing = "13-14, 16"
        /\ missing_frames = <<12, 13, 14, 15, 20>> => str_missing = "12-15, 20"

\* C2: after automatic_gating the diastole and the systole list are disjoint
\* and together hold every gated frame index: each index is in exactly one.
C2_DisjointAndExhaustive ==
    last = "gated" =>
        /\ Range(gated_frames_dia) \cap Range(gated_frames_sys) = {}
        /\ Range(gated_frames_dia) \cup Range(gated_frames_sys)
               = Range(auto.gated_indices)
        /\ \A g \in Range(auto.gated_indices) :
               Count(gated_frames_dia, g) + Count(gated_frames_sys, g) = 1

\* C4: a gated position g stands for the frame numbered x[g] = lower_limit +
\* g + 1: automatic_gating reads that frame's lumen_area row (and so raises
\* nothing), persists the 0-based index x[g] - 1, and every persisted index
\* lies in the requested range and has a marker at its frame number.
C4_ConsistentFrameIndexing ==
    AutoRan =>
        /\ err = "None"
        /\ \A k \in 1..Len(auto.gated_indices) :
               /\ x[auto.gated_indices[k] + 1] = frames.lo + auto.gated_indices[k] + 1
               /\ auto.read_frames[k] = x[auto.gated_indices[k] + 1]
        /\ \A i \in 0..(acq.n - 1) :
               Count(gated_frames_dia, i) + Count(gated_frames_sys, i)
                   = Cardinality({k \in 1..Len(auto.gated_indices) :
                                      x[auto.gated_indices[k] + 1] - 1 = i})
        /\ \A i \in Range(gated_frames_dia) \cup Range(gated_frames_sys) :
               /\ i \in frames.lo..(frames.hi - 1)
               /\ \E k \in 1..Len(vertical_lines) : vertical_lines[k].x = 100 * (i + 1)

\* C5: the list of gated indices the greedy matching produces is
\* non-decreasing, so the two every-other-element halves, and the diastole
\* and systole lists written from them, are in ascending order.
C5_GatedListsOrdered ==
    AutoRan =>
        /\ NonDecreasing(auto.gated_indices)
        /\ Increasing(auto.first_half)
        /\ Increasing(auto.second_half)
        /\ last = "gated" =>
               /\ Increasing(gated_frames_dia)
               /\ Increasing(gated_frames_sys)
               /\ {gated_frames_dia, gated_frames_sys}
                      = {auto.first_half, auto.second_half}

\* a gating whose three or more gated indices went to both lists
C5_Witness ==
    /\ last = "gated"
    /\ Len(auto.gated_indices) >= 3
    /\ Len(gated_frames_dia) + Len(gated_frames_sys) = Len(auto.gated_indices)
    /\ Len(gated_frames_dia) >= 1 /\ Len(gated_frames_sys) >= 1

\* what __call__ leaves in `last`
CallTags == {"cancelled", "no report", "missing frames", "gating raised", "gated",
             "plotted"}

\* the frames of a gated-frame list that draw_existing_lines gives a marker
Drawable(list) == Cardinality({k \in 1..Len(list) : \E j \in 1..Len(x') : x'[j] - 1 = list[k]})

\* C3: automatic gating changes the diastole/systole lists and the phase
\* labels only when both lists are empty on entry; once either list is
\* non-empty an invocation does not run it, leaves the lists and the labels
\* as they are and only draws the markers of the listed frames.
C3_GatingOnlyWhenNothingGated ==
    [][ (last' \in CallTags
            /\ (gated_frames_dia # <<>> \/ gated_frames_sys # <<>>))
        => /\ last' \notin {"gated", "gating raised"}
           /\ UNCHANGED <<gated_frames_dia, gated_frames_sys, phases>>
           /\ last' = "plotted" =>
                  Len(vertical_lines') = Len(vertical_lines)
                      + Drawable(gated_frames_dia) + Drawable(gated_frames_sys) ]_vars

\* a second invocation after manual edits: it plotted, and the lists hold a
\* frame that automatic gating never put there
C3_Witness ==
    /\ last = "plotted"
    /\ auto.ran
    /\ gated_frames_dia # auto.dia
    /\ gated_frames_sys # <<>>

\* C6: when rows are missing from the report table, setup is aborted and no
\* state is mutated: frame series, x axis, report data, marker list,
\* gated-frame lists and phase labels are as before the call.
C6_NoStateMutatedOnAbort ==
    [][ last' = "missing frames"
        => UNCHANGED <<frames, x, report_data, vertical_lines, gated_frames_dia,
                       gated_frames_sys, phases>> ]_vars

\* C7: in zoom/pan mode every press, motion and release leaves the marker
\* list, the selected marker, the pending-toggle phase and the gated-frame
\* lists as they are, and calls no toggle entry point.
C7_ZoomPanLeavesAnnotations ==
    [][ \A e \in Events :
            (e.cursor_shape # 0 /\ (on_click(e) \/ on_motion(e) \/ on_release(e)))
            => /\ UNCHANGED <<vertical_lines, selected_line, tmp_phase,
                              gated_frames_dia, gated_frames_sys>>
               /\ calls' = <<>> ]_vars

\* an event arrived in zoom/pan mode while a marker was selected and a
\* toggle pending
C7_Witness ==
    /\ last = "zoom"
    /\ tmp_phase # "None"
    /\ selected_line > 0
    /\ Len(vertical_lines) = 2

\* what C8 asks of a primary-button press e inside the plot in normal mode
PressOutcome(e) ==
    LET n == Len(vertical_lines)
        d(k) == Abs(vertical_lines[k].x - e.xdata)
        near == \E k \in 1..n : d(k) < frames.hi - frames.lo
        armed == IF current_phase = "D" THEN diastole_color_plt
                 ELSE IF current_phase = "S" THEN systole_color_plt
                 ELSE default_line_color
    IN  /\ IF near
           THEN /\ Len(vertical_lines') = n
                /\ selected_line' \in 1..n
                /\ \A k \in 1..n : d(selected_line') <= d(k)
           ELSE /\ Len(vertical_lines') = n + 1
                /\ selected_line' = n + 1
                /\ vertical_lines'[n + 1].x = e.xdata
                /\ vertical_lines'[n + 1].color = armed
        /\ \A k \in 1..n : /\ vertical_lines'[k].x = vertical_lines[k].x
                           /\ vertical_lines'[k].color = vertical_lines[k].color
        /\ \A k \in 1..Len(vertical_lines') :
               vertical_lines'[k].linestyle = "dashed" <=> k = selected_line'
        /\ \A k \in 1..Len(vertical_lines') :
               k # selected_line' => vertical_lines'[k].linestyle = default_linestyle

C9_MotionOutsideDeletes ==
    [][ \A e \in Events :
            (e.cursor_shape = 0 /\ e.button = "LEFT" /\ selected_line # 0 /\ on_motion(e))
            => IF e.inaxes
               THEN /\ Len(vertical_lines') = Len(vertical_lines)
                    /\ selected_line' = selected_line
               ELSE /\ err' = "None"
                    /\ selected_line' = 0
                    /\ tmp_phase' = "None"
                    /\ selected_line > 0 =>
                           vertical_lines' = RemoveAt(vertical_lines, selected_line) ]_vars

\* C10: a primary-button release in normal mode commits the pending toggle
\* (checkbox set true, toggle entry point applied) and clears it; no pending
\* toggle survives a release.
C10_ReleaseCommitsPending ==
    [][ \A e \in Events :
            on_release(e)
            => /\ tmp_phase' = "None"
               /\ (e.cursor_shape = 0 /\ e.button = "LEFT" /\ tmp_phase # "None")
                  => calls' = <<SetChecked(tmp_phase),
                                ToggleCall(tmp_phase, TRUE, TRUE)>> ]_vars

\* greedy first-match pairing stated over positions of the extrema list: each
\* maxima index, in order, takes the first position not yet taken whose index
\* is within the threshold, and yields the rounded average of the pair
RECURSIVE GreedyPairs(_, _, _, _)
GreedyPairs(maxima_indices, extrema_indices, taken, threshold) ==
    IF maxima_indices = <<>> THEN <<>>
    ELSE LET m == Head(maxima_indices)
             free == {k \in 1..Len(extrema_indices) :
                        k \notin taken /\ Abs(m - extrema_indices[k]) <= threshold}
         IN  IF free = {}
             THEN GreedyPairs(Tail(maxima_indices), extrema_indices, taken, threshold)
             ELSE <<[maxima |-> m, at |-> Min(free)]>>
                  \o GreedyPairs(Tail(maxima_indices), extrema_indices,
                                 taken \cup {Min(free)}, threshold)

\* C11: the matching of automatic_gating is greedy, first-match-wins and at
\* most one-to-one: maxima indices are taken in order, each is paired with
\* the first remaining extrema index (in list order, not the nearest) within
\* auto_gating_threshold, the gated index is the rounded average of the pair
\* and the paired extrema index is used no more; a maxima index without a
\* remaining extrema index in reach yields nothing.
C11_GreedyFirstMatch ==
    AutoRan =>
        LET pairs == GreedyPairs(auto.maxima_indices, auto.extrema_indices, {},
                                 config.auto_gating_threshold)
        IN  /\ Len(auto.gated_indices) = Len(pairs)
            /\ \A k \in 1..Len(pairs) :
                   auto.gated_indices[k]
                       = RoundDiv(pairs[k].maxima + auto.extrema_indices[pairs[k].at], 2)
            /\ \A j, k \in 1..Len(pairs) : j # k => pairs[j].at # pairs[k].at
            /\ Len(auto.gated_indices) <= Len(auto.maxima_indices)
            /\ Len(auto.gated_indices) <= Len(auto.extrema_indices)

\* every maxima index found a partner, and one of them, with an extrema
\* index at its own position still free, took an earlier, farther one
C11_Witness ==
    /\ AutoRan
    /\ Len(auto.maxima_indices) >= 2
    /\ Len(auto.gated_indices) = Len(auto.maxima_indices)
    /\ \E k \in 1..Len(auto.maxima_indices) :
           /\ auto.maxima_indices[k] \in Range(auto.extrema_indices)
           /\ auto.gated_indices[k] < auto.maxima_indices[k]
           /\ \A j \in 1..(k - 1) : auto.gated_indices[j] < auto.maxima_indices[k] - 1

\* the lumen-area sum over a list of gated positions: position g of the
\* chosen range is the frame numbered x[g], and its area is that frame's
RECURSIVE LumenSum(_)
LumenSum(list) ==
    IF list = <<>> THEN 0
    ELSE acq.lumen[x[Head(list) + 1]] + LumenSum(Tail(list))

\* C12: after automatic_gating the half of the gated list (even or odd
\* positions) with the larger lumen-area sum is the diastole list and the
\* other half the systole list, so the lumen-area sum over the diastole list
\* is never smaller than the sum over the systole list, also with equal sums
\* or fewer than two gated frames.
C12_DiastoleHasLargerLumen ==
    (AutoRan /\ last = "gated") =>
        /\ \/ gated_frames_dia = auto.first_half /\ gated_frames_sys = auto.second_half
           \/ gated_frames_dia = auto.second_half /\ gated_frames_sys = auto.first_half
        /\ LumenSum(gated_frames_dia) >= LumenSum(gated_frames_sys)

\* a scalar fraction equals the integer n
Equals(q, n) == q.num = n * q.den

\* two scalar fractions are equal
SameValue(p, q) == p.num * q.den = q.num * p.den

\* two signals hold the same values
SameSignal(a, b) ==
    /\ Len(a.num) = Len(b.num)
    /\ \A i \in 1..Len(a.num) : a.num[i] * b.den = b.num[i] * a.den

\* C13: the rescaling of plot_data leaves the two composite signals with the
\* same mean, factor_diff being mean(maxima signal) / mean(extrema signal);
\* for means 10 and 5 factor_diff is 2 and the extrema signal is the one
\* scaled by 2, the maxima signal staying as it was.
C13_RescalingEqualisesMeans ==
    last = "rescaled" =>
        LET maxima_in == [num |-> acq.maxima, den |-> 1]
            extrema_in == [num |-> acq.extrema, den |-> 1]
        IN  /\ SameValue(plot.factor_diff, Quotient(Mean(maxima_in), Mean(extrema_in)))
            /\ SameValue(Mean(plot.signal_maxima), Mean(plot.signal_extrema))
            /\ (Equals(Mean(maxima_in), 10) /\ Equals(Mean(extrema_in), 5))
                   => /\ Equals(plot.factor_diff, 2)
                      /\ SameSignal(plot.signal_maxima, maxima_in)
                      /\ SameSignal(plot.signal_extrema,
                                    Scaled(extrema_in, [num |-> 2, den |-> 1]))

\* C14: the combined extrema index list returned by identify_extrema is
\* strictly increasing and any two of its indices, a maximum next to a
\* minimum included, are at least the configured minimum distance apart.
C14_ExtremaSeparated ==
    last = "identified" =>
        /\ Increasing(plot.extrema_indices)
        /\ \A j, k \in 1..Len(plot.extrema_indices) :
               j < k => plot.extrema_indices[k] - plot.extrema_indices[j] >= config.distance

\* C15: whatever the peak-spacing variabilities of the member signals (one
\* of them 0, all of them 0, or a member with fewer than two extrema),
\* combined_signal divides by no zero: every weight and every value of the
\* composite signal is a finite number.
C15_WeightsFinite ==
    last = "combined" =>
        /\ \A k \in 1..Len(plot.weights) : plot.weights[k] = "finite"
        /\ \A i \in 1..Len(plot.combined_signal) : plot.combined_signal[i] = "finite"

\* the press began a pending toggle of the phase: tmp_phase holds it and the
\* phase's toggle entry point was called with drag set
BeginsPending(phase) ==
    /\ tmp_phase' = phase
    /\ calls' = <<ToggleCall(phase, FALSE, TRUE)>>

\* C16: a primary-button press inside the plot in normal mode begins a
\* pending toggle of a phase whenever the resulting 0-based frame (the
\* slider value after the press) is in that phase's frame list or that phase
\* is armed, whether the press made a new marker or selected one; when
\* neither holds for either phase no toggle is pending after the press.
C16_PressBeginsPendingToggle ==
    [][ \A e \in Events :
            (e.cursor_shape = 0 /\ e.button = "LEFT" /\ e.inaxes /\ on_click(e))
            => LET want_dia == \/ slider' \in Range(gated_frames_dia)
                               \/ current_phase = "D"
                   want_sys == \/ slider' \in Range(gated_frames_sys)
                               \/ current_phase = "S"
               IN  /\ (want_dia /\ ~want_sys) => BeginsPending("D")
                   /\ (want_sys /\ ~want_dia) => BeginsPending("S")
                   /\ (want_dia /\ want_sys) => BeginsPending("D") \/ BeginsPending("S")
                   /\ (~want_dia /\ ~want_sys) => tmp_phase' = "None" /\ calls' = <<>> ]_vars

\* C17: in every state reachable by presses, motions, releases,
\* draw_existing_lines, remove_lines, reset_highlights and update_color the
\* selected marker is absent or a member of the marker list, so no motion
\* event fails removing a selected marker the list does not hold.
C17_SelectedMarkerInList ==
    /\ selected_line = 0 \/ selected_line \in 1..Len(vertical_lines)
    /\ last # "motion raised"
    /\ err # "ValueError"

====
